---- MODULE Spec2Model ----
(***************************************************************************)
(* Query layer of the academic dashboard: src/app/mysql_utils.py and       *)
(* src/app/mongodb_utils.py.  One call of a query function is in progress  *)
(* at a time (every function is synchronous); each backend interaction of  *)
(* the call is one step, and every backend interaction may raise.          *)
(***************************************************************************)
EXTENDS Integers, Sequences, FiniteSets, TLC

\* ------------------------------------------------------------------ bounds
NumFaculty == 2
NumKeyword == 2
NumUniversity == 2
NumPublication == 2

\* ------------------------------------------------------- program constants
\* A retry loop that gives up one attempt early.
max_retries_short == 3 - 1
\* max_retries = 3 of get_db_connection and of get_mongo_connection
max_retries == 3
mongo_max_retries == 3

VARIABLES
    facCol,     \* faculty.is_deleted exists (INFORMATION_SCHEMA.COLUMNS)
    kwCol,      \* keyword.is_deleted exists
    facDel,     \* committed faculty.is_deleted per row: "T", "F" or "N" (NULL)
    kwDel,      \* committed keyword.is_deleted per row
    op,         \* the query function being executed, "idle" between calls
    arg,        \* its argument: [n |-> int argument, s |-> string argument]
    pc,         \* position inside the function
    cnx,        \* local cnx / client: "None", "open", "closed"
    cursor,     \* local cursor: "None", "open", "closed"
    txn,        \* transaction state of the connection: "none", "implicit", "explicit"
    pending,    \* uncommitted writes of the open transaction: set of <<table, row, value>>
    attempt,    \* loop variable of get_db_connection / get_mongo_connection (attempts made)
    acq,        \* outcome of connection acquisition: [out, err]
    lcl,        \* locals: keyword_id_int, rows_affected, results; second: the string
                \* attempt of delete_keyword_mysql; ip: the statement a read function is at
    ret,        \* what the call gives its caller: [kind, b, n, l]
    errs,       \* kinds of exception raised so far inside the call: "Conn", "Cursor",
                \* "Schema", "Alter", "DupColumn", "AlterCommit", "AlterRollback", "InProgress", "Start", "Update", "NoColumn",
                \* "Commit", "Rollback", "HandlerRollback", "Query", "CursorClose", "CnxClose"
    trace,      \* transaction statements that took effect on the connection, in order
    db0,        \* the tables' is_deleted columns and flags when the call started
    dataset,    \* the academicworld data the query functions only read: the
                \* faculty and publications documents (the same data is in the
                \* publication, publication_keyword and keyword tables)
    client,     \* the module-level client of mongodb_utils.py, MongoClient(MONGO_URI)
                \* made when the module is imported: "open" or "closed"
    keepalive,  \* the run of a keep-alive script: [script, pc, attempt, checks
                \* (liveness checks sent), ok (checks that succeeded), last_err,
                \* status ("none", "running", "exit0", "exit1")]
    calls,      \* calls made at the same time, each on its own connection: per
                \* caller [op, s (its string argument), pc, column_exists (local),
                \* ret, errs, seen (the committed flags its last statement read)]
    view        \* the keyword of the SELECT that defines the database view
                \* TOP_UNIVERSITIES, <<"none">> before its first CREATE

dbVars == <<facCol, kwCol, facDel, kwDel>>
conVars == <<cnx, cursor, txn, pending>>
acqVars == <<attempt, acq>>
vars == <<facCol, kwCol, facDel, kwDel, op, arg, pc, cnx, cursor, txn, pending,
          attempt, acq, lcl, ret, errs, trace, db0, dataset, client, keepalive,
          calls, view>>

\* -------------------------------------------------------------------- data
FacultyIds == 1..NumFaculty
KeywordIds == 1..NumKeyword
Flags == {"T", "F", "N"}

\* Strings are sequences of one-character strings.
Digits == <<"0", "1", "2", "3", "4", "5", "6", "7", "8", "9">>
IsDigit(c) == \E i \in 1..10 : Digits[i] = c
DigitVal(c) == (CHOOSE i \in 1..10 : Digits[i] = c) - 1

\* keyword_id.strip(): leading and trailing blanks removed.
RECURSIVE lstrip(_)
lstrip(s) == IF s # <<>> /\ Head(s) = " " THEN lstrip(Tail(s)) ELSE s
RECURSIVE rstrip(_)
rstrip(s) ==
    IF s # <<>> /\ s[Len(s)] = " " THEN rstrip(SubSeq(s, 1, Len(s) - 1)) ELSE s
strip(s) == rstrip(lstrip(s))

RECURSIVE DecimalValue(_)
DecimalValue(s) ==
    IF s = <<>> THEN 0
    ELSE 10 * DecimalValue(SubSeq(s, 1, Len(s) - 1)) + DigitVal(s[Len(s)])

\* keyword_id_int = None; int(keyword_id) raising ValueError leaves it None.
NoneInt == -1
\* int(keyword_id): blanks around the digits are accepted, anything else raises.
int(s) ==
    LET t == strip(s)
    IN  IF t # <<>> /\ \A i \in 1..Len(t) : IsDigit(t[i])
        THEN DecimalValue(t)
        ELSE NoneInt

\* How the server compares a string key with the integer id column: the
\* string is read as a number (leading blanks skipped, the leading digits
\* taken, 0 when there are none).
RECURSIVE DigitPrefix(_)
DigitPrefix(s) ==
    IF s # <<>> /\ IsDigit(Head(s)) THEN <<Head(s)>> \o DigitPrefix(Tail(s)) ELSE <<>>
StringAsNumber(s) == DecimalValue(DigitPrefix(lstrip(s)))

\* The keyword ids the callers pass: empty, blank, existing ids, an id with a
\* blank, non-numeric text, and a numeric id no row has.
KeywordIdInputs ==
    {<<>>, <<" ">>, <<"1">>, <<"2">>, <<" ", "1">>, <<"x">>, <<"1", "x">>, <<"1", "2">>}

NoArg == [n |-> 0, s |-> <<>>, s2 |-> <<>>]
NoRet == [kind |-> "none", b |-> FALSE, n |-> 0, l |-> <<>>]
NoAcq == [out |-> "pending", err |-> <<"none", 0>>]
\* column_checked: the INFORMATION_SCHEMA.COLUMNS query of the call has run;
\* alters: ALTER TABLE statements the call has sent; keys: the kind of key of
\* each UPDATE delete_keyword_mysql has sent, in order.
NoLcl == [keyword_id_int |-> NoneInt, rows_affected |-> 0, second |-> FALSE,
          ip |-> 1, results |-> <<>>,
          column_checked |-> FALSE, alters |-> 0, keys |-> <<>>]

RetBool(b) == [kind |-> "bool", b |-> b, n |-> 0, l |-> <<>>]
RetInt(n) == [kind |-> "int", b |-> FALSE, n |-> n, l |-> <<>>]
RetList(l) == [kind |-> "list", b |-> FALSE, n |-> 0, l |-> l]
RetRaise == [kind |-> "raise", b |-> FALSE, n |-> 0, l |-> <<>>]

\* ------------------------------------------------------- backend semantics
\* Rows an UPDATE ... SET is_deleted = v WHERE <rows> changes (cursor.rowcount
\* counts changed rows), and the writes it leaves in the open transaction.
Changed(flags, rows, v) == {r \in rows : flags[r] # v}
\* An UPDATE that flags the rows of the same ids in both tables.
Writes_BothTables(tbl, flags, rows, v) ==
    {<<t, r, v>> : t \in {"faculty", "keyword"}, r \in Changed(flags, rows, v)}
Writes(tbl, flags, rows, v) == {<<tbl, r, v>> : r \in Changed(flags, rows, v)}

\* A hard delete: a row written with is_deleted = TRUE is removed from the table.
Apply_HardDelete(tbl, flags, ws) ==
    [r \in {q \in DOMAIN flags : ~\E w \in ws : w[1] = tbl /\ w[2] = q /\ w[3] = "T"} |->
        IF \E w \in ws : w[1] = tbl /\ w[2] = r
        THEN (CHOOSE w \in ws : w[1] = tbl /\ w[2] = r)[3]
        ELSE flags[r]]

Apply(tbl, flags, ws) ==
    [r \in DOMAIN flags |->
        IF \E w \in ws : w[1] = tbl /\ w[2] = r
        THEN (CHOOSE w \in ws : w[1] = tbl /\ w[2] = r)[3]
        ELSE flags[r]]

\* --------------------------------------------------------- relational data
\* Rows of the tables this layer only reads (created externally).
UniversityIds == 1..NumUniversity
PublicationIds == 1..NumPublication

\* str(n) of a non-negative int.
RECURSIVE str(_)
str(n) == IF n < 10 THEN <<Digits[n + 1]>> ELSE str(n \div 10) \o <<Digits[(n % 10) + 1]>>

FacultyName(f) == <<"f">> \o str(f)
KeywordName(k) == <<"k">> \o str(k)
UniversityName(u) == <<"u">> \o str(u)
\* faculty.university_id
UniversityOf(f) == ((f - 1) % NumUniversity) + 1
\* faculty_keyword(faculty_id, keyword_id, score): every pair, scores 40, 50, 60.
FacultyKeywordScore(f, k) == 40 + 10 * ((f + k) % 3)
\* faculty_publication(faculty_id, publication_id)
Wrote(f, p) == f <= p
\* publication_keyword(publication_id, keyword_id, score), score in thousandths.
HasKeyword(p, k) == k <= p
PublicationKeywordScore(p, k) == 125 * (p + k - 1)
\* publication.num_citations
NumCitations(p) == 3 * p

\* The names callers pass: those of the rows, and one no row has.
KeywordNameInputs == {KeywordName(k) : k \in 1..(NumKeyword + 1)}
UniversityNameInputs == {UniversityName(u) : u \in 1..(NumUniversity + 1)}

\* _safe_int(value): a NULL (None) becomes 0.
_safe_int(value) == IF value = NoneInt THEN 0 ELSE value

\* SUM over the joined rows: term is a function from the rows to their terms.
RECURSIVE Sum(_)
Sum(term) ==
    IF DOMAIN term = {} THEN 0
    ELSE LET x == CHOOSE x \in DOMAIN term : TRUE
         IN  term[x] + Sum([y \in DOMAIN term \ {x} |-> term[y]])

\* ORDER BY key DESC over the rows `ids` (rows of equal key by id), as a sequence.
RECURSIVE OrderByDesc(_, _)
OrderByDesc(key, ids) ==
    IF ids = {} THEN <<>>
    ELSE LET top == CHOOSE i \in ids :
                        \A j \in ids : key[i] > key[j] \/ (key[i] = key[j] /\ i <= j)
         IN  <<top>> \o OrderByDesc(key, ids \ {top})
\* Rows of a query without ORDER BY: the model takes the server's order to be by id.
RowOrder(ids) == OrderByDesc([i \in ids |-> 0], ids)
Limit(seq, n) == SubSeq(seq, 1, IF Len(seq) < n THEN Len(seq) ELSE n)
\* [row(x) for x in results]: row is a function on the fetched rows.
Map(row, seq) == [i \in 1..Len(seq) |-> row[seq[i]]]

\* SELECT DISTINCT(name) FROM keyword
get_all_keywords ==
    Map([k \in KeywordIds |-> KeywordName(k)], RowOrder(KeywordIds))

\* SELECT faculty.id, faculty.name, university.name ... WHERE keyword.name = ?
\*   AND faculty_keyword.score >= 50 AND faculty.is_deleted = FALSE
find_faculty_relevant_to_keyword(fd, keyword) ==
    LET rows == {f \in FacultyIds :
                    /\ \E k \in KeywordIds :
                          KeywordName(k) = keyword /\ FacultyKeywordScore(f, k) >= 50
                    /\ fd[f] = "F"}
    IN  Map([f \in rows |-> <<str(f), FacultyName(f), UniversityName(UniversityOf(f))>>],
            RowOrder(rows))

\* SELECT COUNT(*) FROM <table_name>
get_table_count(table_name) ==
    _safe_int(Cardinality(IF table_name = "faculty" THEN FacultyIds ELSE KeywordIds))

\* SELECT COUNT(*) FROM faculty WHERE is_deleted = FALSE
get_faculty_count(fd) == _safe_int(Cardinality({f \in FacultyIds : fd[f] = "F"}))

\* SELECT COUNT(*) FROM keyword WHERE is_deleted IS NULL OR is_deleted = FALSE
get_keyword_count_mysql(kd) ==
    _safe_int(Cardinality({k \in KeywordIds : kd[k] = "N" \/ kd[k] = "F"}))

\* SELECT keyword.id, keyword.name, COUNT(DISTINCT faculty.id) AS faculty_count
\*   ... WHERE university.name = %s AND faculty.is_deleted = FALSE
\*   AND (keyword.is_deleted IS NULL OR keyword.is_deleted = FALSE)
\*   GROUP BY keyword.id, keyword.name ORDER BY faculty_count DESC LIMIT 10
\* (every faculty/keyword pair has a faculty_keyword row)
InterestedFaculty(fd, k, university_name) ==
    {f \in FacultyIds : UniversityName(UniversityOf(f)) = university_name /\ fd[f] = "F"}
faculty_interested_in_keywords_mysql(fd, kd, university_name) ==
    LET rows == {k \in KeywordIds :
                    /\ kd[k] \in {"N", "F"}
                    /\ InterestedFaculty(fd, k, university_name) # {}}
        count == [k \in rows |-> Cardinality(InterestedFaculty(fd, k, university_name))]
    IN  Map([k \in rows |-> <<str(k), KeywordName(k), _safe_int(count[k])>>],
            Limit(OrderByDesc(count, rows), 10))

\* SELECT university.name, COUNT(faculty.id), university.photo_url
\*   FROM university, faculty WHERE university.name = %s
\*   AND university.id = faculty.university_id GROUP BY ...
get_university_information(university_name) ==
    LET rows == {u \in UniversityIds :
                    UniversityName(u) = university_name
                    /\ \E f \in FacultyIds : UniversityOf(f) = u}
        count == [u \in rows |-> Cardinality({f \in FacultyIds : UniversityOf(f) = u})]
    IN  Map([u \in rows |-> <<UniversityName(u), _safe_int(count[u]), <<>>>>],
            RowOrder(rows))

\* ------------------------------------------------- the academicworld data
\* The documents of the faculty and publications collections:
\*   faculty:      [name, affiliation (affiliation.name), publications (ids)]
\*   publications: [year, numCitations, keywords (set of [name, score])]
\* The relational tables publication, publication_keyword and keyword hold the
\* same publications; a keyword name belongs to one keyword id.
NumDocFaculty == 3
NumDocPublication == 2
NumCollabFaculty == 4
DocFacultyIds == 1..NumDocFaculty
DocPublicationIds == 1..NumDocPublication
PublicationYear(p) == 2012 + 2 * p
YearInputs == {2013, 2015, 2017}

KeywordsOf(p, K) ==
    {[name |-> KeywordName(k), score |-> PublicationKeywordScore(p, k)] : k \in K}

DefaultDataset ==
    [faculty |->
        [f \in DocFacultyIds |->
            [name |-> FacultyName(f),
             affiliation |-> UniversityName(UniversityOf(f)),
             publications |-> {p \in DocPublicationIds : Wrote(f, p)}]],
     publications |->
        [p \in DocPublicationIds |->
            [year |-> PublicationYear(p),
             numCitations |-> NumCitations(p),
             keywords |-> KeywordsOf(p, {k \in KeywordIds : HasKeyword(p, k)})]]]

\* Faculty documents: two names and two universities for NumDocFaculty
\* documents, so that faculty of one name, and faculty of one university with
\* a publication in common, occur.
FacultyDocs ==
    [name : {FacultyName(1), FacultyName(2)},
     affiliation : {UniversityName(1), UniversityName(2)},
     publications : (SUBSET DocPublicationIds) \ {{}}]
PublicationDocs(p) ==
    [year : {PublicationYear(1), PublicationYear(2)},
     numCitations : {NumCitations(p)},
     keywords : {KeywordsOf(p, K) : K \in (SUBSET KeywordIds) \ {{}}}]

\* Faculty documents for the collaboration query: each of its own name, at one
\* of three universities, with any of the first two publications (or none).
CollabFacultyDocs(f) ==
    [name : {FacultyName(f)},
     affiliation : {UniversityName(u) : u \in 1..3},
     publications : SUBSET (1..2)]

\* Publications {A/2016 x 3, B/2019 x 1}.
ExampleDataset ==
    [faculty |-> DefaultDataset.faculty,
     publications |->
        [p \in 1..4 |->
            [year |-> IF p <= 3 THEN 2016 ELSE 2019,
             numCitations |-> NumCitations(p),
             keywords |-> KeywordsOf(p, IF p <= 3 THEN {1} ELSE {2})]]]

\* The contents of the two collections: any faculty documents over the default
\* publications, the default faculty over any publications, or the example.
IsDataset(ds) ==
    \/ /\ ds.faculty \in [DocFacultyIds -> FacultyDocs]
       /\ ds.publications = DefaultDataset.publications
    \/ /\ ds.faculty = DefaultDataset.faculty
       /\ DOMAIN ds.publications = DocPublicationIds
       /\ \A p \in DocPublicationIds : ds.publications[p] \in PublicationDocs(p)
    \/ ds = ExampleDataset
    \/ /\ DOMAIN ds.faculty = 1..NumCollabFaculty
       /\ \A f \in 1..NumCollabFaculty : ds.faculty[f] \in CollabFacultyDocs(f)
       /\ ds.publications = DefaultDataset.publications

\* A sort that puts the smallest count first.
RECURSIVE SortAsc(_, _)
SortAsc(count, S) ==
    IF S = {} THEN <<>>
    ELSE LET low == CHOOSE g \in S : \A h \in S : count[g] <= count[h]
         IN  <<low>> \o SortAsc(count, S \ {low})

\* $sort / ORDER BY ... DESC / list.sort(reverse=True) of the groups S by
\* count[g]; groups of equal count come in an order the model fixes.
RECURSIVE SortDesc(_, _)
SortDesc(count, S) ==
    IF S = {} THEN <<>>
    ELSE LET top == CHOOSE g \in S : \A h \in S : count[g] >= count[h]
         IN  <<top>> \o SortDesc(count, S \ {top})

\* $unwind: "$keywords" over the publications: pairs <<publication id, keyword>>.
Unwind(pubs) ==
    {pk \in (DOMAIN pubs) \X (UNION {pubs[p].keywords : p \in DOMAIN pubs}) :
        pk[2] \in pubs[pk[1]].keywords}

\* pipeline: $unwind keywords, $match year >= year, $group by keywords.name
\* with pubcnt = $sum 1, $sort pubcnt -1, $limit 10
find_most_popular_keywords_mongo(ds, year) ==
    LET pubs == ds.publications
        matched == {pk \in Unwind(pubs) : pubs[pk[1]].year >= year}
        groups == {pk[2].name : pk \in matched}
        pubcnt == [g \in groups |-> Cardinality({pk \in matched : pk[2].name = g})]
    IN  Map([g \in groups |-> <<g, pubcnt[g]>>], Limit(SortDesc(pubcnt, groups), 10))

\* SELECT keyword.name, COUNT(publication.id) FROM keyword, publication_keyword,
\*   publication WHERE <joins> AND publication.year >= %s
\*   GROUP BY keyword_id ORDER BY COUNT(keyword_id) DESC LIMIT 10
find_most_popular_keywords_sql(ds, year) ==
    LET pubs == ds.publications
        joined == {pk \in (DOMAIN pubs) \X KeywordIds :
                      /\ \E kw \in pubs[pk[1]].keywords : kw.name = KeywordName(pk[2])
                      /\ pubs[pk[1]].year >= year}
        groups == {pk[2] : pk \in joined}
        cnt == [k \in groups |-> Cardinality({pk \in joined : pk[2] = k})]
    IN  Map([k \in groups |-> <<KeywordName(k), _safe_int(cnt[k])>>],
            Limit(SortDesc(cnt, groups), 10))

\* ROUND(x, 2) of a non-negative x given in thousandths, in hundredths.
Round2(x) == (x + 5) \div 10

\* SELECT faculty.name, ROUND(SUM(publication_keyword.score * publication.num_citations), 2)
\*   ... WHERE keyword.name = %s AND university.name = %s
\*   GROUP BY faculty.id ORDER BY KRC DESC LIMIT 10
KRC(ds, f, keyword) ==
    Round2(Sum([pk \in
               {pk \in Unwind(ds.publications) :
                    pk[1] \in ds.faculty[f].publications /\ pk[2].name = keyword}
               |-> pk[2].score * ds.publications[pk[1]].numCitations]))
find_top_faculties_with_highest_KRC_keyword_sql(ds, keyword, university) ==
    LET rows == {f \in DOMAIN ds.faculty :
                    /\ ds.faculty[f].affiliation = university
                    /\ \E pk \in Unwind(ds.publications) :
                          pk[1] \in ds.faculty[f].publications /\ pk[2].name = keyword}
    IN  Map([f \in rows |-> <<ds.faculty[f].name, KRC(ds, f, keyword)>>],
            Limit(OrderByDesc([f \in rows |-> KRC(ds, f, keyword)], rows), 10))

\* $round: [x, 2] of a non-negative x given in thousandths, in hundredths: a
\* half goes to the even neighbour.
RoundHalfEven2(x) ==
    LET q == x \div 10
        r == x % 10
    IN  IF r > 5 \/ (r = 5 /\ q % 2 = 1) THEN q + 1 ELSE q

\* pipeline: $match affiliation.name, $lookup publications by id, $unwind pubs,
\* $unwind pubs.keywords, $match pubs.keywords.name, $group by "$name" with
\* KRC = $sum(score * numCitations), $sort KRC -1, $limit 10, $round KRC to 2
find_top_faculties_with_highest_KRC_keyword(ds, keyword, affiliation) ==
    LET fac == ds.faculty
        pubs == ds.publications
        rows == {r \in (DOMAIN fac) \X Unwind(pubs) :
                    /\ fac[r[1]].affiliation = affiliation
                    /\ r[2][1] \in fac[r[1]].publications
                    /\ r[2][2].name = keyword}
        groups == {fac[r[1]].name : r \in rows}
        KRCsum == [g \in groups |->
                    Sum([r \in {r \in rows : fac[r[1]].name = g} |->
                            r[2][2].score * pubs[r[2][1]].numCitations])]
    IN  Map([g \in groups |-> <<g, RoundHalfEven2(KRCsum[g])>>],
            Limit(SortDesc(KRCsum, groups), 10))

\* faculty_from_uni, publication_ids, faculty_pub_map, collaborating_faculty,
\* collaboration_map, result.sort(reverse=True), result[:10]
university_collaborate_with_mongo(ds, university_name) ==
    LET fac == ds.faculty
        faculty_from_uni == {f \in DOMAIN fac : fac[f].affiliation = university_name}
        publication_ids == UNION {fac[f].publications : f \in faculty_from_uni}
        faculty_pub_map ==
            [pub_id \in publication_ids |->
                {fac[f].name : f \in {g \in faculty_from_uni : pub_id \in fac[g].publications}}]
        collaborating_faculty ==
            {f \in DOMAIN fac : /\ fac[f].publications \cap publication_ids # {}
                                /\ fac[f].affiliation # university_name
                                /\ fac[f].affiliation # <<>>}
        universities == {fac[f].affiliation : f \in collaborating_faculty}
        collaboration_map ==
            [u \in universities |->
                UNION {faculty_pub_map[pub_id] :
                        pub_id \in UNION {fac[f].publications \cap publication_ids :
                                            f \in {g \in collaborating_faculty :
                                                      fac[g].affiliation = u}}}]
        weight == [u \in universities |-> Cardinality(collaboration_map[u])]
    IN  IF publication_ids = {} THEN <<>>
        ELSE Map([u \in universities |-> <<u, weight[u]>>],
                 Limit(SortDesc(weight, universities), 10))

\* -------------------------------------------------------- concurrent calls
NumCallers == 2
Callers == 1..NumCallers
NoView == <<"none">>
NoConcurrentCall == [op |-> "idle", s |-> <<>>, pc |-> "idle", column_exists |-> FALSE,
                     ret |-> NoRet, errs |-> {}, seen |-> <<>>]

\* ------------------------------------------------------- keep-alive scripts
\* MAX_TRIES of scripts/mysql_keepalive.py
MAX_TRIES == 5
NoKeepAlive == [script |-> "none", pc |-> "none", attempt |-> 0, checks |-> 0,
                ok |-> 0, last_err |-> "none", status |-> "none"]

\* ------------------------------------------------------------------- Init
Init ==
    /\ facCol \in BOOLEAN
    /\ kwCol \in BOOLEAN
    /\ facDel \in [FacultyIds -> {"F", "N"}]
    /\ kwDel \in [KeywordIds -> {"F", "N"}]
    /\ (~facCol => facDel = [f \in FacultyIds |-> "N"])
    /\ (~kwCol => kwDel = [k \in KeywordIds |-> "N"])
    /\ op = "idle"
    /\ arg = NoArg
    /\ pc = "idle"
    /\ cnx = "None"
    /\ cursor = "None"
    /\ txn = "none"
    /\ pending = {}
    /\ attempt = 0
    /\ acq = NoAcq
    /\ lcl = NoLcl
    /\ ret = NoRet
    /\ errs = {}
    /\ trace = <<>>
    /\ db0 = [fac |-> facDel, kw |-> kwDel, facCol |-> facCol, kwCol |-> kwCol,
              added |-> {}]
    /\ dataset = DefaultDataset
    /\ client = "open"
    /\ keepalive = NoKeepAlive
    /\ calls = [c \in Callers |-> NoConcurrentCall]
    /\ view = NoView

\* ------------------------------------------------------------ the callers
FacultyTxnOps == {"delete_faculty", "restore_faculty"}
KeywordTxnOps == {"delete_keyword_mysql", "restore_keyword_mysql"}
TxnOps == FacultyTxnOps \cup KeywordTxnOps
CountOps == {"get_faculty_count", "get_keyword_count_mysql"}
ListOps == {"get_all_keywords", "find_faculty_relevant_to_keyword",
            "find_top_faculties_with_highest_KRC_keyword_sql",
            "faculty_interested_in_keywords_mysql", "get_university_information"}
\* get_table_count(table_name): SELECT COUNT(*) FROM <table_name>, no column step.
TableCountOps == {"get_table_count"}
IntOps == CountOps \cup TableCountOps
ReadOps == CountOps \cup ListOps \cup TableCountOps
MySqlOps == TxnOps \cup ReadOps
MongoOps == {"get_all_collections"}
Ops == MySqlOps \cup MongoOps

\* The table whose is_deleted column the function works on.
Table(o) ==
    IF o \in {"delete_faculty", "restore_faculty", "get_faculty_count"}
    THEN "faculty" ELSE "keyword"
ColumnPresent(tbl) == IF tbl = "faculty" THEN facCol ELSE kwCol
Committed(tbl) == IF tbl = "faculty" THEN facDel ELSE kwDel
\* What the open transaction of the connection reads.
InTxn(tbl) == Apply(tbl, Committed(tbl), pending)

\* The tables the dashboard counts; a table name is one symbol here.
TableNameInputs == {<<"faculty">>, <<"keyword">>}
Args(o) ==
    CASE o = "delete_faculty" -> {[n |-> i, s |-> <<>>, s2 |-> <<>>] : i \in 1..(NumFaculty + 1)}
      [] o = "delete_keyword_mysql" -> {[n |-> 0, s |-> k, s2 |-> <<>>] : k \in KeywordIdInputs}
      [] o \in {"find_faculty_relevant_to_keyword"} ->
            {[n |-> 0, s |-> k, s2 |-> <<>>] : k \in KeywordNameInputs}
      [] o \in {"faculty_interested_in_keywords_mysql", "get_university_information"} ->
            {[n |-> 0, s |-> u, s2 |-> <<>>] : u \in UniversityNameInputs}
      [] o = "find_top_faculties_with_highest_KRC_keyword_sql" ->
            {[n |-> 0, s |-> k, s2 |-> u] : k \in KeywordNameInputs, u \in UniversityNameInputs}
      [] o = "get_table_count" -> {[n |-> 0, s |-> t, s2 |-> <<>>] : t \in TableNameInputs}
      [] OTHER -> {NoArg}

\* The first statement of each function after cursor = cnx.cursor().
FirstPc(o) ==
    IF o \in FacultyTxnOps THEN "start_plain"
    ELSE IF o \in KeywordTxnOps \cup CountOps THEN "check"
    ELSE "run"

\* A caller (a dashboard callback) invokes a query function.
Call ==
    /\ pc = "idle"
    /\ \E o \in Ops : \E a \in Args(o) :
          /\ op' = o
          /\ arg' = a
    /\ pc' = "connect"
    /\ db0' = [fac |-> facDel, kw |-> kwDel, facCol |-> facCol, kwCol |-> kwCol,
               added |-> db0.added]
    /\ UNCHANGED <<dbVars, conVars, acqVars, lcl, ret, errs, trace>>
    /\ UNCHANGED <<dataset, client, keepalive, calls, view>>

\* The tables whose is_deleted column the current call has added.
AddedByCall ==
    {t \in {"faculty", "keyword"} :
        IF t = "faculty" THEN facCol /\ ~db0.facCol ELSE kwCol /\ ~db0.kwCol}

\* The call has returned (or raised) to its caller; its frame is dropped.  A
\* connection the call left open is no longer reachable from the program; the
\* server discards its open transaction.
Finish ==
    /\ pc = "done"
    /\ op' = "idle"
    /\ arg' = NoArg
    /\ pc' = "idle"
    /\ cnx' = "None"
    /\ cursor' = "None"
    /\ txn' = "none"
    /\ pending' = {}
    /\ attempt' = 0
    /\ acq' = NoAcq
    /\ lcl' = NoLcl
    /\ ret' = NoRet
    /\ errs' = {}
    /\ trace' = <<>>
    /\ db0' = [fac |-> facDel, kw |-> kwDel, facCol |-> facCol, kwCol |-> kwCol,
               added |-> db0.added \cup AddedByCall]
    /\ UNCHANGED dbVars
    /\ UNCHANGED <<dataset, client, keepalive, calls, view>>

\* ----------------------------------------------------- exception plumbing
\* An exception of kind k raised inside the try block of the current
\* function: control goes to its except clause.
Raise(k) ==
    /\ errs' = errs \cup {k}
    /\ pc' = "except"

\* ------------------------------------------------- connection acquisition
\* get_db_connection: one iteration of `for attempt in range(1, max_retries + 1)`.
\* kind "Error" is mysql.connector.Error (caught, retried); kind "Other" is any
\* other exception (e.g. int(os.getenv("DB_PORT")) raising ValueError), which
\* `except Error` does not catch.
get_db_connection ==
    /\ pc = "connect"
    /\ op \in MySqlOps
    /\ attempt < max_retries
    /\ attempt' = attempt + 1
    /\ \/ /\ cnx' = "open"
          /\ acq' = [out |-> "conn", err |-> acq.err]
          /\ pc' = "cursor"
          /\ UNCHANGED errs
       \/ \E kind \in {"Error", "Other"} :
          /\ cnx' = cnx
          /\ IF kind = "Error" /\ attempt' < max_retries
             THEN /\ acq' = [out |-> "pending", err |-> <<kind, attempt'>>]
                  /\ UNCHANGED <<pc, errs>>
             ELSE /\ acq' = [out |-> "raise", err |-> <<kind, attempt'>>]
                  /\ Raise("Conn")
    /\ UNCHANGED <<dbVars, op, arg, cursor, txn, pending, lcl, ret, trace, db0>>
    /\ UNCHANGED <<dataset, client, keepalive, calls, view>>

\* get_mongo_connection: one iteration of its loop.  `except Exception`
\* catches every kind of failure of MongoClient(...), so every kind is retried.
get_mongo_connection ==
    /\ pc = "connect"
    /\ op \in MongoOps
    /\ attempt < mongo_max_retries
    /\ attempt' = attempt + 1
    /\ \/ /\ cnx' = "open"
          /\ acq' = [out |-> "conn", err |-> acq.err]
          /\ pc' = "mongo_run"
          /\ UNCHANGED errs
       \/ \E kind \in {"Error", "Other"} :
          /\ cnx' = cnx
          /\ IF attempt' < mongo_max_retries
             THEN /\ acq' = [out |-> "pending", err |-> <<kind, attempt'>>]
                  /\ UNCHANGED <<pc, errs>>
             ELSE /\ acq' = [out |-> "raise", err |-> <<kind, attempt'>>]
                  /\ Raise("Conn")
    /\ UNCHANGED <<dbVars, op, arg, cursor, txn, pending, lcl, ret, trace, db0>>
    /\ UNCHANGED <<dataset, client, keepalive, calls, view>>

\* cursor = cnx.cursor().  get_db_connection has returned: its locals are gone.
cnx_cursor ==
    /\ pc = "cursor"
    /\ \/ /\ cursor' = "open"
          /\ pc' = FirstPc(op)
          /\ UNCHANGED errs
       \/ /\ cursor' = cursor
          /\ Raise("Cursor")
    /\ attempt' = 0
    /\ acq' = NoAcq
    /\ UNCHANGED <<dbVars, op, arg, cnx, txn, pending, lcl, ret, trace, db0>>
    /\ UNCHANGED <<dataset, client, keepalive, calls, view>>

\* ---------------------------------------------------- schema evolution
\* cursor.execute("SELECT COUNT(*) FROM INFORMATION_SCHEMA.COLUMNS ...").  With
\* autocommit off the statement may leave the connection inside a transaction
\* (the server decides).
check_column ==
    /\ pc = "check"
    /\ \/ /\ \E t \in {txn, "implicit"} : txn' = (IF txn = "none" THEN t ELSE txn)
          /\ lcl' = [lcl EXCEPT !.column_checked = TRUE]
          /\ pc' = "check_fetch"
          /\ UNCHANGED errs
       \/ /\ Raise("Schema")
          /\ UNCHANGED <<txn, lcl>>
    /\ UNCHANGED <<dbVars, op, arg, cnx, cursor, pending, acqVars, ret, trace, db0>>
    /\ UNCHANGED <<dataset, client, keepalive, calls, view>>

\* delete_keyword_mysql, after the column check:
\*   if not keyword_id or keyword_id.strip() == "": return False
\*   keyword_id_int = int(keyword_id), None when int() raises
ValidateKeywordId ==
    IF arg.s = <<>> \/ strip(arg.s) = <<>>
    THEN /\ ret' = RetBool(FALSE)
         /\ pc' = "finally"
         /\ UNCHANGED lcl
    ELSE /\ lcl' = [lcl EXCEPT !.keyword_id_int = int(arg.s)]
         /\ pc' = "start"
         /\ UNCHANGED ret

\* Where a keyword function goes once the column step is over.
AfterColumnStep ==
    IF op = "delete_keyword_mysql" THEN ValidateKeywordId
    ELSE IF op \in CountOps
    THEN /\ pc' = "run"
         /\ UNCHANGED <<lcl, ret>>
    ELSE /\ ret' = RetBool(TRUE)       \* restore_keyword_mysql: return True
         /\ pc' = "finally"
         /\ UNCHANGED lcl

\* A column check that never finds the column.
column_exists_never == FALSE
\* column_exists = (_safe_int(result[0]) > 0) if result else False
column_exists == _safe_int(IF ColumnPresent(Table(op)) THEN 1 ELSE 0) > 0

\* result = cursor.fetchone(); column_exists = ...; if not column_exists: ...
fetch_column ==
    /\ pc = "check_fetch"
    /\ \/ /\ IF ~column_exists
             THEN /\ pc' = "alter"
                  /\ UNCHANGED <<lcl, ret>>
             ELSE IF op = "delete_keyword_mysql"
             THEN ValidateKeywordId
             ELSE /\ pc' = IF op \in CountOps THEN "run" ELSE "start"
                  /\ UNCHANGED <<lcl, ret>>
          /\ UNCHANGED errs
       \/ /\ Raise("Schema")
          /\ UNCHANGED <<lcl, ret>>
    /\ UNCHANGED <<dbVars, op, arg, conVars, acqVars, trace, db0>>
    /\ UNCHANGED <<dataset, client, keepalive, calls, view>>

\* The inner except clause: delete_keyword_mysql and restore_keyword_mysql roll
\* back; the count functions only print and go on.
AlterFailed == IF op \in KeywordTxnOps THEN "alter_rollback" ELSE "run"

\* cursor.execute("ALTER TABLE ... ADD COLUMN is_deleted BOOLEAN DEFAULT FALSE")
\* inside the inner try.  The statement commits implicitly; every existing row
\* gets FALSE.  It fails when the column is there already.
alter_table ==
    /\ pc = "alter"
    /\ \/ /\ ~ColumnPresent(Table(op))
          /\ IF Table(op) = "faculty"
             THEN /\ facCol' = TRUE
                  /\ facDel' = [f \in FacultyIds |-> "F"]
                  /\ UNCHANGED <<kwCol, kwDel>>
             ELSE /\ kwCol' = TRUE
                  /\ kwDel' = [k \in KeywordIds |-> "F"]
                  /\ UNCHANGED <<facCol, facDel>>
          /\ txn' = "none"
          /\ pc' = "alter_commit"
          /\ UNCHANGED errs
       \/ /\ errs' = errs \cup {IF ColumnPresent(Table(op)) THEN "DupColumn" ELSE "Alter"}
          /\ pc' = AlterFailed
          /\ UNCHANGED <<dbVars, txn>>
    /\ lcl' = [lcl EXCEPT !.alters = lcl.alters + 1]
    /\ UNCHANGED <<op, arg, cnx, cursor, pending, acqVars, ret, trace, db0>>
    /\ UNCHANGED <<dataset, client, keepalive, calls, view>>

\* cnx.commit() after the ALTER, still inside the inner try.
alter_commit ==
    /\ pc = "alter_commit"
    /\ \/ /\ txn' = "none"
          /\ AfterColumnStep
          /\ UNCHANGED errs
       \/ /\ errs' = errs \cup {"AlterCommit"}
          /\ pc' = AlterFailed
          /\ UNCHANGED <<txn, lcl, ret>>
    /\ UNCHANGED <<dbVars, op, arg, cnx, cursor, pending, acqVars, trace, db0>>
    /\ UNCHANGED <<dataset, client, keepalive, calls, view>>

\* except Exception as alter_error: try: cnx.rollback() except: pass
alter_rollback ==
    /\ pc = "alter_rollback"
    /\ op \in KeywordTxnOps
    /\ \/ /\ txn' = "none"
          /\ UNCHANGED errs
       \/ /\ errs' = errs \cup {"AlterRollback"}
          /\ UNCHANGED txn
    /\ AfterColumnStep
    /\ UNCHANGED <<dbVars, op, arg, cnx, cursor, pending, acqVars, trace, db0>>
    /\ UNCHANGED <<dataset, client, keepalive, calls, view>>

\* ------------------------------------------------------------ transactions
\* Where a function goes once its transaction is started.
AfterStart == "update"

\* cnx.start_transaction() of delete_faculty and restore_faculty (no handler
\* around it).  The connector raises "Transaction already in progress" when
\* the connection is in a transaction.
start_transaction_plain ==
    /\ pc = "start_plain"
    /\ \/ /\ txn = "none"
          /\ txn' = "explicit"
          /\ trace' = Append(trace, "START")
          /\ pc' = AfterStart
          /\ UNCHANGED errs
       \/ /\ txn # "none"
          /\ Raise("InProgress")
          /\ UNCHANGED <<txn, trace>>
       \/ /\ txn = "none"
          /\ Raise("Start")
          /\ UNCHANGED <<txn, trace>>
    /\ UNCHANGED <<dbVars, op, arg, cnx, cursor, pending, acqVars, lcl, ret, db0>>
    /\ UNCHANGED <<dataset, client, keepalive, calls, view>>

\* try: cnx.start_transaction()
\* except Exception as tx_error:
\*     if "already in progress" in str(tx_error).lower(): (rollback, start again)
\*     else: raise
start_transaction_guarded ==
    /\ pc = "start"
    /\ \/ /\ txn = "none"
          /\ txn' = "explicit"
          /\ trace' = Append(trace, "START")
          /\ pc' = AfterStart
          /\ UNCHANGED errs
       \/ /\ txn # "none"
          /\ errs' = errs \cup {"InProgress"}
          /\ pc' = "start_rollback"
          /\ UNCHANGED <<txn, trace>>
       \/ /\ txn = "none"
          /\ Raise("Start")
          /\ UNCHANGED <<txn, trace>>
    /\ UNCHANGED <<dbVars, op, arg, cnx, cursor, pending, acqVars, lcl, ret, db0>>
    /\ UNCHANGED <<dataset, client, keepalive, calls, view>>

\* A handler that rolls back and goes on without starting a transaction.
AfterHandlerRollback_NoRestart == "update"
\* After the handler's cnx.rollback(): cnx.start_transaction() again.
AfterHandlerRollback == "start_again"

\* The handler's cnx.rollback(): ends the transaction that was in progress.
start_rollback ==
    /\ pc = "start_rollback"
    /\ \/ /\ trace' = Append(trace, IF txn = "explicit" THEN "ROLLBACK" ELSE "ROLLBACK_IMPLICIT")
          /\ txn' = "none"
          /\ pending' = {}
          /\ pc' = AfterHandlerRollback
          /\ UNCHANGED errs
       \/ /\ Raise("Rollback")
          /\ UNCHANGED <<txn, pending, trace>>
    /\ UNCHANGED <<dbVars, op, arg, cnx, cursor, acqVars, lcl, ret, db0>>
    /\ UNCHANGED <<dataset, client, keepalive, calls, view>>

\* The handler's second cnx.start_transaction().
start_again ==
    /\ pc = "start_again"
    /\ \/ /\ txn = "none"
          /\ txn' = "explicit"
          /\ trace' = Append(trace, "START")
          /\ pc' = AfterStart
          /\ UNCHANGED errs
       \/ /\ Raise(IF txn = "none" THEN "Start" ELSE "InProgress")
          /\ UNCHANGED <<txn, trace>>
    /\ UNCHANGED <<dbVars, op, arg, cnx, cursor, pending, acqVars, lcl, ret, db0>>
    /\ UNCHANGED <<dataset, client, keepalive, calls, view>>

\* The rows the WHERE clause of the function's UPDATE selects.
\*   delete_faculty:        WHERE id = faculty_id
\*   restore_*:             WHERE is_deleted = TRUE
\*   delete_keyword_mysql:  WHERE id = keyword_id_int, then WHERE id = keyword_id
\* A delete that never uses the numeric key.
UsesIntKey_Never == FALSE
UsesIntKey == lcl.keyword_id_int # NoneInt /\ ~lcl.second
\* A restore whose WHERE clause reaches one flagged row only.
Target_OneRow ==
    CASE op = "delete_faculty" -> {f \in FacultyIds : f = arg.n}
      [] op = "delete_keyword_mysql" ->
            IF UsesIntKey
            THEN {k \in KeywordIds : k = lcl.keyword_id_int}
            ELSE {k \in KeywordIds : k = StringAsNumber(arg.s)}
      [] op = "restore_faculty" ->
            {f \in FacultyIds : InTxn("faculty")[f] = "T"
                                /\ \A g \in FacultyIds : InTxn("faculty")[g] = "T" => f <= g}
      [] OTHER ->
            {k \in KeywordIds : InTxn("keyword")[k] = "T"
                                /\ \A j \in KeywordIds : InTxn("keyword")[j] = "T" => k <= j}
Target ==
    CASE op = "delete_faculty" -> {f \in FacultyIds : f = arg.n}
      [] op = "delete_keyword_mysql" ->
            IF UsesIntKey
            THEN {k \in KeywordIds : k = lcl.keyword_id_int}
            ELSE {k \in KeywordIds : k = StringAsNumber(arg.s)}
      [] op = "restore_faculty" -> {f \in FacultyIds : InTxn("faculty")[f] = "T"}
      [] OTHER -> {k \in KeywordIds : InTxn("keyword")[k] = "T"}
NewValue == IF op \in {"delete_faculty", "delete_keyword_mysql"} THEN "T" ELSE "F"

\* What follows the UPDATE.  delete_keyword_mysql reads cursor.rowcount:
\*   int key, 0 rows: rollback and try the string key;
\*   rows > 0: commit, return True; else rollback, return False.
AfterUpdate(rows) ==
    IF op # "delete_keyword_mysql" THEN "commit"
    ELSE IF rows > 0 THEN "commit"
    ELSE IF UsesIntKey THEN "retry_rollback"
    ELSE "not_found"

\* The keys of the UPDATEs of delete_keyword_mysql, the one being sent included:
\* (keyword_id_int,) is an int key, (keyword_id,) a string key.
KeysSent ==
    IF op = "delete_keyword_mysql"
    THEN Append(lcl.keys, IF UsesIntKey THEN "int" ELSE "str")
    ELSE lcl.keys

\* cursor.execute("UPDATE <table> SET is_deleted = ... WHERE ...")
update ==
    /\ pc = "update"
    /\ \/ /\ ColumnPresent(Table(op))
          /\ LET ws == Writes(Table(op), InTxn(Table(op)), Target, NewValue)
             IN  /\ pending' = pending \cup ws
                 /\ lcl' = [lcl EXCEPT !.rows_affected = Cardinality(ws), !.keys = KeysSent]
                 /\ pc' = AfterUpdate(Cardinality(ws))
          /\ trace' = Append(trace, IF txn = "explicit" THEN "UPDATE" ELSE "UPDATE_OUTSIDE")
          /\ UNCHANGED errs
       \/ /\ Raise(IF ColumnPresent(Table(op)) THEN "Update" ELSE "NoColumn")
          /\ lcl' = [lcl EXCEPT !.keys = KeysSent]
          /\ UNCHANGED <<pending, trace>>
    /\ UNCHANGED <<dbVars, op, arg, cnx, cursor, txn, acqVars, ret, db0>>
    /\ UNCHANGED <<dataset, client, keepalive, calls, view>>

\* delete_keyword_mysql, int key matched nothing: cnx.rollback(), then the
\* guarded start_transaction again, for the string attempt.
retry_rollback ==
    /\ pc = "retry_rollback"
    /\ \/ /\ trace' = IF txn = "explicit" THEN Append(trace, "ROLLBACK") ELSE trace
          /\ txn' = "none"
          /\ pending' = {}
          /\ lcl' = [lcl EXCEPT !.second = TRUE]
          /\ pc' = "start"
          /\ UNCHANGED errs
       \/ /\ Raise("Rollback")
          /\ UNCHANGED <<txn, pending, lcl, trace>>
    /\ UNCHANGED <<dbVars, op, arg, cnx, cursor, acqVars, ret, db0>>
    /\ UNCHANGED <<dataset, client, keepalive, calls, view>>

\* cnx.commit(); return True
commit ==
    /\ pc = "commit"
    /\ \/ /\ facDel' = Apply("faculty", facDel, pending)
          /\ kwDel' = Apply("keyword", kwDel, pending)
          /\ pending' = {}
          /\ txn' = "none"
          /\ trace' = IF txn = "explicit" THEN Append(trace, "COMMIT") ELSE trace
          /\ ret' = RetBool(TRUE)
          /\ pc' = "finally"
          /\ UNCHANGED errs
       \/ /\ Raise("Commit")
          /\ UNCHANGED <<facDel, kwDel, pending, txn, trace, ret>>
    /\ UNCHANGED <<facCol, kwCol, op, arg, cnx, cursor, acqVars, lcl, db0>>
    /\ UNCHANGED <<dataset, client, keepalive, calls, view>>

\* delete_keyword_mysql, rows_affected == 0: cnx.rollback(); return False
not_found ==
    /\ pc = "not_found"
    /\ \/ /\ trace' = IF txn = "explicit" THEN Append(trace, "ROLLBACK") ELSE trace
          /\ txn' = "none"
          /\ pending' = {}
          /\ ret' = RetBool(FALSE)
          /\ pc' = "finally"
          /\ UNCHANGED errs
       \/ /\ Raise("Rollback")
          /\ UNCHANGED <<txn, pending, trace, ret>>
    /\ UNCHANGED <<dbVars, op, arg, cnx, cursor, acqVars, lcl, db0>>
    /\ UNCHANGED <<dataset, client, keepalive, calls, view>>

\* ---------------------------------------------------------- read functions
\* The backend calls a read function makes after cursor = cnx.cursor() (the
\* count functions: after the column step), in order.
Program(o) ==
    CASE o = "find_faculty_relevant_to_keyword" ->
            <<"execute", "execute", "execute", "fetch", "execute">>
            \* PREPARE stmt; SET @keyword; EXECUTE stmt; fetchall; DEALLOCATE PREPARE
      [] OTHER -> <<"execute", "fetch">>

\* Whether the function's query names faculty.is_deleted / keyword.is_deleted.
ReadsFacultyFlag(o) ==
    o \in {"find_faculty_relevant_to_keyword", "get_faculty_count",
           "faculty_interested_in_keywords_mysql"}
ReadsKeywordFlag(o) ==
    o \in {"get_keyword_count_mysql", "faculty_interested_in_keywords_mysql"}
UnknownColumn(o) ==
    \/ ReadsFacultyFlag(o) /\ ~facCol
    \/ ReadsKeywordFlag(o) /\ ~kwCol

\* What the function's query gives on the committed rows.
Rows(o, a) ==
    CASE o = "get_all_keywords" -> get_all_keywords
      [] o = "find_faculty_relevant_to_keyword" -> find_faculty_relevant_to_keyword(facDel, a.s)
      [] o = "find_top_faculties_with_highest_KRC_keyword_sql" ->
            find_top_faculties_with_highest_KRC_keyword_sql(dataset, a.s, a.s2)
      [] o = "faculty_interested_in_keywords_mysql" ->
            faculty_interested_in_keywords_mysql(facDel, kwDel, a.s)
      [] o = "get_university_information" -> get_university_information(a.s)
      [] o = "get_faculty_count" -> <<get_faculty_count(facDel)>>
      [] o = "get_keyword_count_mysql" -> <<get_keyword_count_mysql(kwDel)>>
      [] o = "get_table_count" -> <<get_table_count(a.s[1])>>

\* return [...] / return _safe_int(result[0]) if result else 0
Returned(o, results) ==
    IF o \in IntOps
    THEN RetInt(IF results = <<>> THEN 0 ELSE results[1])
    ELSE RetList(results)

\* One backend call of a read function: cursor.execute(...) or
\* cursor.fetchall() / cursor.fetchone(); after the last one the function
\* returns its result.
run ==
    /\ pc = "run"
    /\ op \in ReadOps
    /\ LET st == Program(op)[lcl.ip]
           results == IF st = "fetch" THEN Rows(op, arg) ELSE lcl.results
       IN  \/ /\ ~UnknownColumn(op)
              /\ IF lcl.ip = Len(Program(op))
                 THEN /\ ret' = Returned(op, results)
                      /\ pc' = "finally"
                      /\ lcl' = [lcl EXCEPT !.results = results]
                 ELSE /\ lcl' = [lcl EXCEPT !.ip = lcl.ip + 1, !.results = results]
                      /\ UNCHANGED <<ret, pc>>
              /\ UNCHANGED errs
           \/ /\ Raise(IF UnknownColumn(op) THEN "NoColumn" ELSE "Query")
              /\ UNCHANGED <<lcl, ret>>
    /\ UNCHANGED <<dbVars, op, arg, conVars, acqVars, trace, db0>>
    /\ UNCHANGED <<dataset, client, keepalive, calls, view>>

\* ----------------------------------------------------------------- MongoDB
\* db.list_collection_names()
list_collection_names == <<"faculty", "publications">>

\* The body of a MongoDB function after client, db = get_mongo_connection():
\* its one backend call, whose value it returns.
mongo_run ==
    /\ pc = "mongo_run"
    /\ op \in MongoOps
    /\ \/ /\ ret' = RetList(list_collection_names)
          /\ pc' = "finally"
          /\ UNCHANGED errs
       \/ /\ Raise("Query")
          /\ UNCHANGED ret
    /\ attempt' = 0
    /\ acq' = NoAcq
    /\ UNCHANGED <<dbVars, op, arg, conVars, lcl, trace, db0>>
    /\ UNCHANGED <<dataset, client, keepalive, calls, view>>

\* --------------------------------------------------------- except clauses
\* except Exception of the soft-delete and restore functions:
\*   if cnx: cnx.rollback(); return False
\* A rollback that raises leaves the handler with that exception.
except_rollback ==
    /\ pc = "except"
    /\ op \in TxnOps
    /\ \/ /\ cnx = "None"
          /\ ret' = RetBool(FALSE)
          /\ UNCHANGED <<txn, pending, trace, errs>>
       \/ /\ cnx # "None"
          /\ txn' = "none"
          /\ pending' = {}
          /\ trace' = IF txn = "explicit" THEN Append(trace, "ROLLBACK") ELSE trace
          /\ ret' = RetBool(FALSE)
          /\ UNCHANGED errs
       \/ /\ cnx # "None"
          /\ ret' = RetRaise
          /\ errs' = errs \cup {"HandlerRollback"}
          /\ UNCHANGED <<txn, pending, trace>>
    /\ pc' = "finally"
    /\ attempt' = 0
    /\ acq' = NoAcq
    /\ UNCHANGED <<dbVars, op, arg, cnx, cursor, lcl, db0>>
    /\ UNCHANGED <<dataset, client, keepalive, calls, view>>

\* except Exception of the read functions: print, return [] (return 0 in the
\* count functions).
except_default ==
    /\ pc = "except"
    /\ op \in ReadOps \cup MongoOps
    /\ ret' = IF op \in IntOps THEN RetInt(0) ELSE RetList(<<>>)
    /\ pc' = "finally"
    /\ attempt' = 0
    /\ acq' = NoAcq
    /\ UNCHANGED <<dbVars, op, arg, conVars, lcl, errs, trace, db0>>
    /\ UNCHANGED <<dataset, client, keepalive, calls, view>>

\* ---------------------------------------------------------------- finally
\* finally: close_db_connection(cursor, cnx):
\*     if cursor: cursor.close()
\*     if cnx: cnx.close()
\* An exception in either close leaves the helper at once and replaces whatever
\* the function was returning.  Closing a connection ends its session; the
\* server discards an open transaction.
close_db_connection ==
    /\ pc = "finally"
    /\ op \in MySqlOps
    /\ \/ /\ cursor # "None"          \* cursor.close() raises
          /\ ret' = RetRaise
          /\ errs' = errs \cup {"CursorClose"}
          /\ UNCHANGED <<cursor, cnx, txn, pending, trace>>
       \/ /\ cnx # "None"             \* cnx.close() raises
          /\ cursor' = IF cursor = "None" THEN "None" ELSE "closed"
          /\ ret' = RetRaise
          /\ errs' = errs \cup {"CnxClose"}
          /\ UNCHANGED <<cnx, txn, pending, trace>>
       \/ /\ cursor' = IF cursor = "None" THEN "None" ELSE "closed"
          /\ cnx' = IF cnx = "None" THEN "None" ELSE "closed"
          /\ txn' = "none"
          /\ pending' = {}
          /\ trace' = IF cnx = "None" THEN trace ELSE Append(trace, "CLOSE")
          /\ UNCHANGED <<ret, errs>>
    /\ pc' = "done"
    /\ UNCHANGED <<dbVars, op, arg, acqVars, lcl, db0>>
    /\ UNCHANGED <<dataset, client, keepalive, calls, view>>

\* finally: close_mongo_connection(client): if client: client.close()
close_mongo_connection ==
    /\ pc = "finally"
    /\ op \in MongoOps
    /\ \/ /\ cnx # "None"             \* client.close() raises
          /\ ret' = RetRaise
          /\ errs' = errs \cup {"CnxClose"}
          /\ UNCHANGED <<cnx, trace>>
       \/ /\ cnx' = IF cnx = "None" THEN "None" ELSE "closed"
          /\ trace' = IF cnx = "None" THEN trace ELSE Append(trace, "CLOSE")
          /\ UNCHANGED <<ret, errs>>
    /\ pc' = "done"
    /\ UNCHANGED <<dbVars, op, arg, cursor, txn, pending, acqVars, lcl, db0>>
    /\ UNCHANGED <<dataset, client, keepalive, calls, view>>

\* ------------------------------------------------------------------- Next
Next ==
    \/ Call
    \/ Finish
    \/ get_db_connection
    \/ get_mongo_connection
    \/ cnx_cursor
    \/ check_column
    \/ fetch_column
    \/ alter_table
    \/ alter_commit
    \/ alter_rollback
    \/ start_transaction_plain
    \/ start_transaction_guarded
    \/ start_rollback
    \/ start_again
    \/ update
    \/ retry_rollback
    \/ commit
    \/ not_found
    \/ run
    \/ except_rollback
    \/ except_default
    \/ close_db_connection
    \/ mongo_run
    \/ close_mongo_connection

Spec == Init /\ [][Next]_vars

\* ------------------------------------------- the queries over varied data
\* The aggregation functions as functions of the stored data: the data is any
\* dataset IsDataset admits, and a step is one call whose backend calls all succeed and
\* which returns what its pipeline or SELECT computes.
NoCallInProgress ==
    /\ facCol = TRUE
    /\ kwCol = TRUE
    /\ facDel = [f \in FacultyIds |-> "F"]
    /\ kwDel = [k \in KeywordIds |-> "F"]
    /\ op = "idle"
    /\ arg = NoArg
    /\ pc = "idle"
    /\ cnx = "None"
    /\ cursor = "None"
    /\ txn = "none"
    /\ pending = {}
    /\ attempt = 0
    /\ acq = NoAcq
    /\ lcl = NoLcl
    /\ ret = NoRet
    /\ errs = {}
    /\ trace = <<>>
    /\ db0 = [fac |-> facDel, kw |-> kwDel, facCol |-> facCol, kwCol |-> kwCol,
              added |-> {}]
    /\ client = "open"
    /\ keepalive = NoKeepAlive
    /\ calls = [c \in Callers |-> NoConcurrentCall]
    /\ view = NoView

QInit ==
    /\ NoCallInProgress
    /\ \/ \E F \in [DocFacultyIds -> FacultyDocs] :
             dataset = [faculty |-> F, publications |-> DefaultDataset.publications]
       \/ \E P \in [DocPublicationIds -> UNION {PublicationDocs(p) : p \in DocPublicationIds}] :
             dataset = [faculty |-> DefaultDataset.faculty, publications |-> P]
       \/ dataset = ExampleDataset
    /\ IsDataset(dataset)

QueryFrame ==
    UNCHANGED <<facCol, kwCol, facDel, kwDel, cnx, cursor, txn, pending, attempt,
                acq, lcl, errs, trace, db0, dataset, client, keepalive, calls, view>>

Run_find_most_popular_keywords_mongo ==
    /\ pc = "idle"
    /\ \E year \in YearInputs :
          /\ op' = "find_most_popular_keywords_mongo"
          /\ arg' = [n |-> year, s |-> <<>>, s2 |-> <<>>]
          /\ ret' = RetList(find_most_popular_keywords_mongo(dataset, year))
    /\ pc' = "done"
    /\ QueryFrame

Run_find_most_popular_keywords_sql ==
    /\ pc = "idle"
    /\ \E year \in YearInputs :
          /\ op' = "find_most_popular_keywords_sql"
          /\ arg' = [n |-> year, s |-> <<>>, s2 |-> <<>>]
          /\ ret' = RetList(find_most_popular_keywords_sql(dataset, year))
    /\ pc' = "done"
    /\ QueryFrame

Run_find_top_faculties_with_highest_KRC_keyword ==
    /\ pc = "idle"
    /\ \E keyword \in KeywordNameInputs, affiliation \in UniversityNameInputs :
          /\ op' = "find_top_faculties_with_highest_KRC_keyword"
          /\ arg' = [n |-> 0, s |-> keyword, s2 |-> affiliation]
          /\ ret' = RetList(find_top_faculties_with_highest_KRC_keyword(
                                dataset, keyword, affiliation))
    /\ pc' = "done"
    /\ QueryFrame

Run_find_top_faculties_with_highest_KRC_keyword_sql ==
    /\ pc = "idle"
    /\ \E keyword \in KeywordNameInputs, university \in UniversityNameInputs :
          /\ op' = "find_top_faculties_with_highest_KRC_keyword_sql"
          /\ arg' = [n |-> 0, s |-> keyword, s2 |-> university]
          /\ ret' = RetList(find_top_faculties_with_highest_KRC_keyword_sql(
                                dataset, keyword, university))
    /\ pc' = "done"
    /\ QueryFrame

Run_university_collaborate_with_mongo ==
    /\ pc = "idle"
    /\ \E university_name \in UniversityNameInputs :
          /\ op' = "university_collaborate_with_mongo"
          /\ arg' = [n |-> 0, s |-> university_name, s2 |-> <<>>]
          /\ ret' = RetList(university_collaborate_with_mongo(dataset, university_name))
    /\ pc' = "done"
    /\ QueryFrame

\* The caller takes the result.
QueryReturn ==
    /\ pc = "done"
    /\ op' = "idle"
    /\ arg' = NoArg
    /\ ret' = NoRet
    /\ pc' = "idle"
    /\ QueryFrame

QNext ==
    \/ Run_find_most_popular_keywords_mongo
    \/ Run_find_most_popular_keywords_sql
    \/ Run_find_top_faculties_with_highest_KRC_keyword
    \/ Run_find_top_faculties_with_highest_KRC_keyword_sql
    \/ Run_university_collaborate_with_mongo
    \/ QueryReturn

QuerySpec == QInit /\ [][QNext]_vars

\* The keyword popularity queries over any publications.
PopularityInit ==
    /\ NoCallInProgress
    /\ \/ \E P \in [DocPublicationIds -> UNION {PublicationDocs(p) : p \in DocPublicationIds}] :
             dataset = [faculty |-> DefaultDataset.faculty, publications |-> P]
       \/ dataset = ExampleDataset
    /\ IsDataset(dataset)

PopularityNext ==
    \/ Run_find_most_popular_keywords_mongo
    \/ Run_find_most_popular_keywords_sql
    \/ QueryReturn

PopularitySpec == PopularityInit /\ [][PopularityNext]_vars

\* The collaboration query over faculty of three universities.
CollaborationInit ==
    /\ NoCallInProgress
    /\ \E A \in [1..NumCollabFaculty -> 1..3], P \in [1..NumCollabFaculty -> SUBSET (1..2)] :
          dataset = [faculty |-> [f \in 1..NumCollabFaculty |->
                                     [name |-> FacultyName(f),
                                      affiliation |-> UniversityName(A[f]),
                                      publications |-> P[f]]],
                     publications |-> DefaultDataset.publications]
    /\ IsDataset(dataset)

CollaborationNext ==
    \/ Run_university_collaborate_with_mongo
    \/ QueryReturn

CollaborationSpec == CollaborationInit /\ [][CollaborationNext]_vars

\* ------------------------------------------------- the keep-alive scripts
\* One run at a time of a keep-alive script, started by its scheduler:
\* scripts/mysql_keepalive.py, scripts/aiven_api_keepalive.py,
\* app/aiven_mysql_keepalive.py and scripts/neo4j_keepalive.py.  An uncaught
\* exception and SystemExit(1) end the run with a non-zero exit status.
Scripts == {"mysql_keepalive", "aiven_api_keepalive", "aiven_mysql_keepalive",
            "neo4j_keepalive"}
MySqlScripts == {"mysql_keepalive", "aiven_mysql_keepalive"}

KeepAliveInit ==
    /\ NoCallInProgress
    /\ dataset = DefaultDataset

KeepAliveFrame ==
    UNCHANGED <<facCol, kwCol, facDel, kwDel, op, arg, pc, cnx, cursor, txn, pending,
                attempt, acq, lcl, ret, errs, trace, db0, dataset, client, calls, view>>

Exit(status) ==
    [keepalive EXCEPT !.pc = "done", !.status = status]

\* The script starts and reads its environment.  A missing variable is a
\* KeyError of os.environ[...] in three scripts; aiven_api_keepalive uses
\* os.getenv and returns ("ping skipped") when one is missing.
keepalive_start ==
    /\ keepalive.status # "running"
    /\ \E script \in Scripts, env_set \in BOOLEAN :
          LET started == [NoKeepAlive EXCEPT !.script = script, !.status = "running"]
          IN  keepalive' =
                IF ~env_set
                THEN [started EXCEPT !.pc = "done",
                                 !.last_err = "env",
                                 !.status = IF script = "aiven_api_keepalive"
                                            THEN "exit0" ELSE "exit1"]
                ELSE CASE script \in MySqlScripts ->
                            [started EXCEPT !.pc = "connect", !.attempt = 1]
                       [] script = "aiven_api_keepalive" ->
                            [started EXCEPT !.pc = "get", !.attempt = 1]
                       [] OTHER ->
                            [started EXCEPT !.pc = "run", !.attempt = 1]
    /\ KeepAliveFrame

\* After a failed attempt: mysql_keepalive goes to its except clause,
\* aiven_mysql_keepalive has no handler.
Failed(kind) ==
    IF keepalive.script = "mysql_keepalive"
    THEN [keepalive EXCEPT !.pc = "sleep", !.last_err = kind]
    ELSE [Exit("exit1") EXCEPT !.last_err = kind]

\* conn = pymysql.connect(...)
keepalive_connect ==
    /\ keepalive.status = "running"
    /\ keepalive.pc = "connect"
    /\ \/ keepalive' = [keepalive EXCEPT !.pc = "ping"]
       \/ keepalive' = Failed("connect")
    /\ KeepAliveFrame

\* cur.execute("SELECT 1 AS ping;"); row = cur.fetchone(); conn.close();
\* if not row or row[0] != 1: raise RuntimeError
keepalive_ping ==
    /\ keepalive.status = "running"
    /\ keepalive.pc = "ping"
    /\ \E outcome \in {"one", "row", "execute"} :
          LET sent == [keepalive EXCEPT !.checks = @ + 1]
          IN  keepalive' =
                IF outcome = "one"
                THEN [sent EXCEPT !.ok = @ + 1, !.pc = "done", !.status = "exit0"]
                ELSE [Failed(outcome) EXCEPT !.checks = sent.checks]
    /\ KeepAliveFrame

\* except Exception: time.sleep(sleep_s), then the next attempt; after the
\* last one: raise RuntimeError("All 5 attempts failed ...")
keepalive_sleep ==
    /\ keepalive.status = "running"
    /\ keepalive.pc = "sleep"
    /\ keepalive' =
          IF keepalive.attempt < MAX_TRIES
          THEN [keepalive EXCEPT !.pc = "connect", !.attempt = @ + 1]
          ELSE Exit("exit1")
    /\ KeepAliveFrame

\* resp = requests.get(url, ...): 200, another status (SystemExit(1)), or an
\* exception, which is raised again.
ping_aiven_service ==
    /\ keepalive.status = "running"
    /\ keepalive.pc = "get"
    /\ \E outcome \in {"200", "status", "requests"} :
          LET sent == [keepalive EXCEPT !.checks = @ + 1]
          IN  keepalive' =
                IF outcome = "200"
                THEN [sent EXCEPT !.ok = @ + 1, !.pc = "done", !.status = "exit0"]
                ELSE [sent EXCEPT !.last_err = outcome, !.pc = "done", !.status = "exit1"]
    /\ KeepAliveFrame

\* session.run("MERGE (h:Heartbeat ...) SET h.lastSeen = datetime()")
neo4j_heartbeat ==
    /\ keepalive.status = "running"
    /\ keepalive.pc = "run"
    /\ \E outcome \in {"written", "neo4j"} :
          LET sent == [keepalive EXCEPT !.checks = @ + 1]
          IN  keepalive' =
                IF outcome = "written"
                THEN [sent EXCEPT !.ok = @ + 1, !.pc = "done", !.status = "exit0"]
                ELSE [sent EXCEPT !.last_err = outcome, !.pc = "done", !.status = "exit1"]
    /\ KeepAliveFrame

KeepAliveNext ==
    \/ keepalive_start
    \/ keepalive_connect
    \/ keepalive_ping
    \/ keepalive_sleep
    \/ ping_aiven_service
    \/ neo4j_heartbeat

KeepAliveSpec == KeepAliveInit /\ [][KeepAliveNext]_vars

\* --------------------------------------------- concurrent calls: the view
\* keyword.name LIKE %keyword%: the keyword occurs in the name.
Like(name, keyword) ==
    \E i \in 1..(Len(name) - Len(keyword) + 1) :
        SubSeq(name, i, i + Len(keyword) - 1) = keyword

\* SELECT university.name, COUNT(distinct(faculty.id)) AS faculty_count ...
\*   AND keyword.name LIKE %s GROUP BY university.name      (the view), then
\* SELECT * FROM TOP_UNIVERSITIES ORDER BY faculty_count DESC LIMIT 5
\* (every faculty/keyword pair has a faculty_keyword row)
WorkingFaculty(u, keyword) ==
    {f \in FacultyIds : /\ UniversityOf(f) = u
                        /\ \E k \in KeywordIds : Like(KeywordName(k), keyword)}
find_universities_with_faculties_working_keywords(keyword) ==
    LET rows == {u \in UniversityIds : WorkingFaculty(u, keyword) # {}}
        faculty_count == [u \in rows |-> Cardinality(WorkingFaculty(u, keyword))]
    IN  Map([u \in rows |-> <<UniversityName(u), _safe_int(faculty_count[u])>>],
            Limit(OrderByDesc(faculty_count, rows), 5))

\* Callers call find_universities_with_faculties_working_keywords at the same
\* time, each on its own connection; every backend call succeeds.  A step is
\* one statement, and the view belongs to the database, not to a connection.
ConcurrentFrame ==
    UNCHANGED <<op, arg, pc, cnx, cursor, txn, pending, attempt, acq, lcl, ret, errs,
                trace, db0, dataset, client, keepalive>>

ViewInit ==
    /\ NoCallInProgress
    /\ dataset = DefaultDataset

\* The call starts: cnx = get_db_connection(); cursor = cnx.cursor()
view_call ==
    /\ \E c \in Callers, keyword \in KeywordNameInputs :
          /\ calls[c].pc = "idle"
          /\ calls' = [calls EXCEPT ![c] =
                [NoConcurrentCall EXCEPT !.op = "find_universities_with_faculties_working_keywords",
                                         !.s = keyword,
                                         !.pc = "create_view"]]
    /\ UNCHANGED <<view, dbVars>>
    /\ ConcurrentFrame

\* cursor.execute(CREATE OR REPLACE VIEW TOP_UNIVERSITIES AS ... LIKE %s); cnx.commit()
create_view ==
    /\ \E c \in Callers :
          /\ calls[c].pc = "create_view"
          /\ view' = calls[c].s
          /\ calls' = [calls EXCEPT ![c].pc = "select_view"]
    /\ UNCHANGED dbVars
    /\ ConcurrentFrame

\* cursor.execute(SELECT * FROM TOP_UNIVERSITIES ...); fetchall(); return
select_view ==
    /\ \E c \in Callers :
          /\ calls[c].pc = "select_view"
          /\ calls' = [calls EXCEPT
                ![c].ret = RetList(find_universities_with_faculties_working_keywords(view)),
                ![c].pc = "done"]
    /\ UNCHANGED <<view, dbVars>>
    /\ ConcurrentFrame

\* The caller takes the result.
concurrent_return ==
    /\ \E c \in Callers :
          /\ calls[c].pc = "done"
          /\ calls' = [calls EXCEPT ![c] = NoConcurrentCall]
    /\ UNCHANGED <<view, dbVars>>
    /\ ConcurrentFrame

ViewNext ==
    \/ view_call
    \/ create_view
    \/ select_view
    \/ concurrent_return

ViewSpec == ViewInit /\ [][ViewNext]_vars

\* ------------------------------------- concurrent calls: schema evolution
\* Callers run the functions that add the is_deleted column at the same time,
\* each on its own connection.  A step is the column check, the ALTER with
\* the inner try around it, or the dependent operation of the function, which
\* runs as one transaction.  The only error is the one the race produces: the
\* ALTER of a caller that saw no column, sent after another caller's ALTER.
\* The rows the UPDATEs of delete_keyword_mysql change: the int key first, the
\* string key when the int key changed no row.
delete_keyword_rows(flags, keyword_id) ==
    LET by_int == Changed(flags, {k \in KeywordIds : k = int(keyword_id)}, "T")
    IN  IF by_int # {} THEN by_int
        ELSE Changed(flags, {k \in KeywordIds : k = StringAsNumber(keyword_id)}, "T")

\* What the function does once the column step is over, on the committed
\* flags of its table: the value it returns and the flags it leaves.
\*   get_faculty_count, get_keyword_count_mysql: the SELECT COUNT(*)
\*   delete_keyword_mysql: validation, UPDATE ... WHERE id = %s, commit or rollback
\*   restore_keyword_mysql: return True when the column was not seen, else
\*     UPDATE ... WHERE is_deleted = TRUE, commit, return True
DependentOperation(o, keyword_id, flags, seen_column) ==
    CASE o = "get_faculty_count" ->
            [ret |-> RetInt(get_faculty_count(flags)), flags |-> flags]
      [] o = "get_keyword_count_mysql" ->
            [ret |-> RetInt(get_keyword_count_mysql(flags)), flags |-> flags]
      [] o = "delete_keyword_mysql" ->
            IF keyword_id = <<>> \/ strip(keyword_id) = <<>>
            THEN [ret |-> RetBool(FALSE), flags |-> flags]
            ELSE LET rows == delete_keyword_rows(flags, keyword_id)
                 IN  [ret |-> RetBool(rows # {}),
                      flags |-> [k \in KeywordIds |-> IF k \in rows THEN "T" ELSE flags[k]]]
      [] OTHER ->
            [ret |-> RetBool(TRUE),
             flags |-> IF seen_column
                       THEN [k \in KeywordIds |-> IF flags[k] = "T" THEN "F" ELSE flags[k]]
                       ELSE flags]

\* The outer except clause: return 0, or rollback and return False.
OuterExcept(o) == IF o \in CountOps THEN RetInt(0) ELSE RetBool(FALSE)

\* An ALTER error that reaches the outer except clause.
AfterAlterError_Outer(o) == "except"
\* except Exception as alter_error: print(...), and for the keyword
\* transactions cnx.rollback(); the function goes on.
AfterAlterError(o) == "run"

\* The call starts: cnx = get_db_connection(); cursor = cnx.cursor()
schema_call ==
    /\ \E c \in Callers, o \in KeywordTxnOps \cup CountOps :
          \E keyword_id \in IF o = "delete_keyword_mysql" THEN KeywordIdInputs ELSE {<<>>} :
             /\ calls[c].pc = "idle"
             /\ calls' = [calls EXCEPT ![c] =
                   [NoConcurrentCall EXCEPT !.op = o, !.s = keyword_id, !.pc = "check"]]
    /\ UNCHANGED <<view, dbVars>>
    /\ ConcurrentFrame

\* SELECT COUNT(*) FROM INFORMATION_SCHEMA.COLUMNS ...; column_exists = ...
schema_check_column ==
    /\ \E c \in Callers :
          /\ calls[c].pc = "check"
          /\ LET found == _safe_int(IF ColumnPresent(Table(calls[c].op)) THEN 1 ELSE 0) > 0
             IN  calls' = [calls EXCEPT ![c].column_exists = found,
                                        ![c].pc = IF found THEN "run" ELSE "alter"]
    /\ UNCHANGED <<view, dbVars>>
    /\ ConcurrentFrame

\* if not column_exists: try: ALTER TABLE ... ADD COLUMN is_deleted BOOLEAN
\* DEFAULT FALSE; cnx.commit()  except: ...   The ALTER gives every row FALSE;
\* it fails with "Duplicate column name" when the column is there by now.
schema_alter ==
    /\ \E c \in Callers :
          /\ calls[c].pc = "alter"
          /\ IF ~ColumnPresent(Table(calls[c].op))
             THEN /\ IF Table(calls[c].op) = "faculty"
                     THEN /\ facCol' = TRUE
                          /\ facDel' = [f \in FacultyIds |-> "F"]
                          /\ UNCHANGED <<kwCol, kwDel>>
                     ELSE /\ kwCol' = TRUE
                          /\ kwDel' = [k \in KeywordIds |-> "F"]
                          /\ UNCHANGED <<facCol, facDel>>
                  /\ calls' = [calls EXCEPT ![c].pc = "run"]
             ELSE /\ calls' = [calls EXCEPT ![c].errs = @ \cup {"DupColumn"},
                                            ![c].pc = AfterAlterError(calls[c].op)]
                  /\ UNCHANGED dbVars
    /\ UNCHANGED view
    /\ ConcurrentFrame

\* The rest of the function, up to its return.
schema_run ==
    /\ \E c \in Callers :
          /\ calls[c].pc \in {"run", "except"}
          /\ LET o == calls[c].op
                 flags == Committed(Table(o))
                 done == DependentOperation(o, calls[c].s, flags, calls[c].column_exists)
             IN  IF calls[c].pc = "except"
                 THEN /\ calls' = [calls EXCEPT ![c].ret = OuterExcept(o),
                                                ![c].seen = flags,
                                                ![c].pc = "done"]
                      /\ UNCHANGED dbVars
                 ELSE /\ calls' = [calls EXCEPT ![c].ret = done.ret,
                                                ![c].seen = flags,
                                                ![c].pc = "done"]
                      /\ IF Table(o) = "faculty"
                         THEN UNCHANGED dbVars
                         ELSE /\ kwDel' = done.flags
                              /\ UNCHANGED <<facCol, kwCol, facDel>>
    /\ UNCHANGED view
    /\ ConcurrentFrame

\* The tables as loaded, before any function has added the column: the race
\* needs the column absent, which holds only until the first ALTER, so each
\* caller makes one call.
SchemaInit ==
    /\ Init
    /\ ~facCol
    /\ ~kwCol

SchemaNext ==
    \/ schema_call
    \/ schema_check_column
    \/ schema_alter
    \/ schema_run

SchemaSpec == SchemaInit /\ [][SchemaNext]_vars

\* ================================================================== claims
Has(seq, e) == \E i \in 1..Len(seq) : seq[i] = e
First(seq, e) == CHOOSE i \in 1..Len(seq) : seq[i] = e /\ \A j \in 1..(i - 1) : seq[j] # e
Deleted(flags) == {r \in DOMAIN flags : flags[r] = "T"}
DeleteOps == {"delete_faculty", "delete_keyword_mysql"}
RestoreOps == {"restore_faculty", "restore_keyword_mysql"}
CallEnded == pc = "done"
NoFlagChanged == Deleted(facDel) = Deleted(db0.fac) /\ Deleted(kwDel) = Deleted(db0.kw)

\* The id given to the soft-delete matches no row, as a number or as a string.
MatchesNoRow ==
    IF op = "delete_faculty" THEN arg.n \notin FacultyIds
    ELSE int(arg.s) \notin KeywordIds /\ StringAsNumber(arg.s) \notin KeywordIds

\* C1: a soft-delete (delete_faculty, delete_keyword_mysql) of an id that
\* matches no row, every backend call succeeding, commits nothing, returns
\* False and changes no is_deleted flag.
C1_UnknownIdFails ==
    (CallEnded /\ op \in DeleteOps /\ MatchesNoRow /\ errs = {}) =>
        /\ ret = RetBool(FALSE)
        /\ ~Has(trace, "COMMIT")
        /\ NoFlagChanged

\* The rows of the function's table that were flagged when the call started.
FlaggedBefore == IF Table(op) = "faculty" THEN Deleted(db0.fac) ELSE Deleted(db0.kw)

ColumnAbsentBefore == IF Table(op) = "faculty" THEN ~db0.facCol ELSE ~db0.kwCol

\* C3: a restore call on a table that has no is_deleted column yet issues no
\* restoring UPDATE, changes no row and returns True.
C3_RestoreWithoutColumn ==
    (CallEnded /\ op \in RestoreOps /\ ColumnAbsentBefore /\ errs \subseteq {"NoColumn"}) =>
        /\ ret = RetBool(TRUE)
        /\ "NoColumn" \notin errs
        /\ ~Has(trace, "UPDATE")
        /\ NoFlagChanged

\* C4: when a call has ended, however it ended (the close of the connection
\* itself not raising), the connection it acquired is closed.
C4_ConnectionClosed ==
    (CallEnded /\ "CnxClose" \notin errs) => cnx # "open"

\* C5: a list-returning function never raises; after any backend failure it
\* returns the empty list.
C5_ListNeverRaises ==
    (CallEnded /\ op \in ListOps \cup MongoOps) =>
        /\ ret.kind = "list"
        /\ (errs # {} => ret.l = <<>>)

\* C6 (as stated): acquisition raises only after exactly 3 attempts, with the
\* error of the last one; a connection is returned by attempt k <= 3, every
\* earlier attempt having failed, and no attempt follows.
C6_ThreeAttempts ==
    /\ (acq.out = "raise" => attempt = 3 /\ acq.err[2] = attempt)
    /\ (acq.out = "conn" =>
            /\ attempt \in 1..3
            /\ (attempt = 1 => acq.err[2] = 0)
            /\ (attempt > 1 => acq.err[2] = attempt - 1))
    /\ (acq.out # "pending" => pc # "connect")

\* C6 (amended): as stated when the attempts fail with an error the loop
\* catches (mysql.connector.Error in get_db_connection, any exception in
\* get_mongo_connection); in get_db_connection an attempt that fails with
\* another exception ends the acquisition at once with that exception.
C6_ThreeRetriedAttempts ==
    /\ (acq.out = "raise" =>
            /\ acq.err[2] = attempt
            /\ attempt \in 1..3
            /\ (op \in MongoOps \/ acq.err[1] = "Error" => attempt = 3)
            /\ (attempt < 3 => op \in MySqlOps /\ acq.err[1] = "Other"))
    /\ (acq.out = "conn" =>
            /\ attempt \in 1..3
            /\ (attempt = 1 => acq.err[2] = 0)
            /\ (attempt > 1 => acq.err[2] = attempt - 1))
    /\ (acq.out # "pending" => pc # "connect")

C6_Witness == acq.out = "conn" /\ attempt = 3 /\ acq.err = <<"Error", 2>>

\* C7: a soft-delete or restore call returns a boolean and never raises; after
\* an exception in the update or in starting, committing or rolling back the
\* transaction it returns False and no flag has changed.  (Exceptions of the
\* closing of cursor and connection are left aside.)
TxnErrors == {"Start", "InProgress", "Update", "NoColumn", "Commit", "Rollback", "HandlerRollback"}
C7_BooleanNeverRaises ==
    (CallEnded /\ op \in TxnOps /\ errs \cap {"CursorClose", "CnxClose"} = {}) =>
        /\ ret.kind = "bool"
        /\ (errs \cap (TxnErrors \ {"InProgress"}) # {} => ret.b = FALSE /\ NoFlagChanged)

\* START -> UPDATE -> (COMMIT | ROLLBACK), any number of times, then CLOSE:
\* st is "out", "started" or "updated".
RECURSIVE Cycle(_, _)
Cycle(tr, st) ==
    IF tr = <<>> THEN st = "out"
    ELSE LET e == Head(tr)
         IN  CASE e = "START" -> st = "out" /\ Cycle(Tail(tr), "started")
               [] e = "UPDATE" -> st = "started" /\ Cycle(Tail(tr), "updated")
               [] e = "COMMIT" -> st = "updated" /\ Cycle(Tail(tr), "out")
               [] e = "ROLLBACK" -> st \in {"started", "updated"} /\ Cycle(Tail(tr), "out")
               [] e = "ROLLBACK_IMPLICIT" -> st = "out" /\ Cycle(Tail(tr), "out")
               [] e = "CLOSE" -> st = "out" /\ Tail(tr) = <<>>
               [] OTHER -> FALSE

\* C8: every UPDATE of a soft-delete or restore call runs in a transaction the
\* call started, and every transaction the call started is ended by one commit
\* or rollback before the connection is closed.
C8_TransactionCycle ==
    (CallEnded /\ op \in TxnOps) => Cycle(trace, "out")

\* What a call of a keyword function returns when nothing goes wrong.
CleanResult ==
    IF op = "restore_keyword_mysql" THEN TRUE
    ELSE \E k \in KeywordIds :
            /\ k = int(arg.s) \/ k = StringAsNumber(arg.s)
            /\ db0.kw[k] # "T"

\* C9: when start_transaction fails because a transaction is in progress, the
\* call rolls that transaction back and starts one of its own before the
\* UPDATE; the UPDATE never runs in the earlier transaction, and the call
\* returns what it returns otherwise.  (In delete_faculty and restore_faculty
\* no statement precedes start_transaction, and the case does not arise.)
C9_RestartsTransaction ==
    /\ ("InProgress" \in errs => op \in KeywordTxnOps)
    /\ ~Has(trace, "UPDATE_OUTSIDE")
    /\ ("InProgress" \in errs /\ Has(trace, "UPDATE") =>
            /\ Has(trace, "ROLLBACK_IMPLICIT")
            /\ First(trace, "ROLLBACK_IMPLICIT") < First(trace, "START")
            /\ First(trace, "START") < First(trace, "UPDATE"))
    /\ (CallEnded /\ errs = {"InProgress"} => ret = RetBool(CleanResult))

C9_Witness ==
    /\ CallEnded
    /\ op = "delete_keyword_mysql"
    /\ errs = {"InProgress"}
    /\ trace = <<"ROLLBACK_IMPLICIT", "START", "UPDATE", "COMMIT", "CLOSE">>
    /\ ret = RetBool(TRUE)

\* C10: no soft-deleted faculty row is in a returned faculty list or counted
\* in a faculty count or per-faculty aggregate, and no soft-deleted keyword is
\* in a returned keyword list, keyword count or keyword-filtered result.
DeletedFacultyNames == {FacultyName(f) : f \in Deleted(facDel)}
DeletedKeywordNames == {KeywordName(k) : k \in Deleted(kwDel)}
ActiveFacultyOf(university_name) ==
    {f \in FacultyIds : UniversityName(UniversityOf(f)) = university_name /\ facDel[f] # "T"}
C10_DeletedRowsExcluded ==
    (CallEnded /\ op \in ReadOps /\ errs = {}) =>
        CASE op = "get_all_keywords" ->
                \A i \in 1..Len(ret.l) : ret.l[i] \notin DeletedKeywordNames
          [] op = "find_faculty_relevant_to_keyword" ->
                /\ \A i \in 1..Len(ret.l) : ret.l[i][2] \notin DeletedFacultyNames
                /\ (arg.s \in DeletedKeywordNames => ret.l = <<>>)
          [] op = "find_top_faculties_with_highest_KRC_keyword_sql" ->
                /\ \A i \in 1..Len(ret.l) : ret.l[i][1] \notin DeletedFacultyNames
                /\ (arg.s \in DeletedKeywordNames => ret.l = <<>>)
          [] op = "faculty_interested_in_keywords_mysql" ->
                \A i \in 1..Len(ret.l) :
                    /\ ret.l[i][2] \notin DeletedKeywordNames
                    /\ ret.l[i][3] <= Cardinality(ActiveFacultyOf(arg.s))
          [] op = "get_university_information" ->
                \A i \in 1..Len(ret.l) : ret.l[i][2] <= Cardinality(ActiveFacultyOf(arg.s))
          [] op = "get_faculty_count" ->
                ret.n <= Cardinality(FacultyIds \ Deleted(facDel))
          [] op = "get_keyword_count_mysql" ->
                ret.n <= Cardinality(KeywordIds \ Deleted(kwDel))
          [] op = "get_table_count" ->
                ret.n <= Cardinality(IF arg.s = <<"faculty">>
                                     THEN FacultyIds \ Deleted(facDel)
                                     ELSE KeywordIds \ Deleted(kwDel))


\* The next backend call of the function sends a statement that names
\* is_deleted: the UPDATE of a soft-delete or restore, or the query (for
\* find_faculty_relevant_to_keyword the PREPARE) of a read function.
SendsFlagStatement ==
    \/ pc = "update"
    \/ pc = "run" /\ lcl.ip = 1 /\ (ReadsFacultyFlag(op) \/ ReadsKeywordFlag(op))

\* C11: whenever a function is about to send a statement that names is_deleted,
\* the column check of that call has run, and when the column was absent the
\* call has sent the ALTER TABLE that adds it.
C11_CheckBeforeUse ==
    SendsFlagStatement =>
        /\ lcl.column_checked
        /\ (ColumnAbsentBefore => lcl.alters >= 1)

RowsOf(tbl) == IF tbl = "faculty" THEN FacultyIds ELSE KeywordIds

\* C12: when the column is absent and adding it fails (the ALTER TABLE or the
\* commit after it raises, nothing else does), get_faculty_count and
\* get_keyword_count_mysql return the number of all rows of their table.
C12_AlterFailureSwallowed ==
    (/\ CallEnded
     /\ op \in CountOps
     /\ ColumnAbsentBefore
     /\ errs \cap {"Alter", "AlterCommit"} # {}
     /\ errs \subseteq {"Alter", "AlterCommit", "NoColumn"}) =>
        ret = RetInt(Cardinality(RowsOf(Table(op))))

\* The functions that run the schema-evolution step (check for is_deleted, add
\* it when missing).
SchemaOps == KeywordTxnOps \cup CountOps
AlterErrors == {"Alter", "DupColumn", "AlterCommit", "AlterRollback"}

\* C13: a run of the schema-evolution step on a table that has the column (as
\* after an earlier run) sends no ALTER TABLE and gets no error from adding the
\* column; a run sends at most one ALTER TABLE; and after a run in which no
\* backend call raised the table has the column.
C13_SchemaStepIdempotent ==
    /\ lcl.alters <= 1
    /\ (op \in SchemaOps /\ ~ColumnAbsentBefore =>
            lcl.alters = 0 /\ errs \cap AlterErrors = {})
    /\ (CallEnded /\ op \in SchemaOps /\ errs = {} => ColumnPresent(Table(op)))

\* The step has run on the keyword table after an earlier call added the column.
C13_Witness ==
    /\ CallEnded
    /\ op = "get_keyword_count_mysql"
    /\ "keyword" \in db0.added
    /\ lcl.column_checked
    /\ lcl.alters = 0
    /\ errs = {}
    /\ kwCol

\* The rows the count function of the call is to count: those of its table whose
\* is_deleted is FALSE or NULL.
CountedTable == IF op = "get_table_count" THEN arg.s[1] ELSE Table(op)
ActiveRows == {r \in RowsOf(CountedTable) : Committed(CountedTable)[r] # "T"}
\* An exception reached the except clause of the function.
ReachedExcept == cnx = "None" \/ errs \cap {"Cursor", "Schema", "Query", "NoColumn"} # {}

\* C14: a count function (get_faculty_count, get_keyword_count_mysql,
\* get_table_count) never raises; it returns 0 when a backend call failed and
\* the number of rows whose is_deleted is FALSE or NULL when none did.
\* (Exceptions of the closing of cursor and connection are left aside.)
C14_CountsFailSoft ==
    (CallEnded /\ op \in IntOps /\ errs \cap {"CursorClose", "CnxClose"} = {}) =>
        /\ ret.kind = "int"
        /\ (ReachedExcept => ret.n = 0)
        /\ (errs = {} => ret.n = Cardinality(ActiveRows))

\* The UPDATE with the numeric key changes no row of the table as it was when
\* the call started (after the column step, which flags nothing).
NumericMatchedNone == Changed(db0.kw, {k \in KeywordIds : k = int(arg.s)}, "T") = {}

SharingFaculty(x, y) ==
    {f \in DOMAIN dataset.faculty :
        /\ dataset.faculty[f].affiliation = x
        /\ \E g \in DOMAIN dataset.faculty :
              /\ dataset.faculty[g].affiliation = y
              /\ dataset.faculty[f].publications \cap dataset.faculty[g].publications # {}}

\* C16: every entry (Y, weight) that university_collaborate_with_mongo returns
\* for the origin university X has weight = the number of distinct faculty
\* members of X who share at least one publication with a faculty member of Y.
C16_WeightCountsFaculty ==
    (CallEnded /\ op = "university_collaborate_with_mongo") =>
        \A i \in 1..Len(ret.l) :
            ret.l[i][2] = Cardinality(SharingFaculty(arg.s, ret.l[i][1]))

\* Sum of score * numCitations over the publications of faculty member f that
\* carry the keyword, in thousandths.
RelevanceCitations(f, keyword) ==
    Sum([pk \in {pk \in Unwind(dataset.publications) :
                    pk[1] \in dataset.faculty[f].publications /\ pk[2].name = keyword}
         |-> pk[2].score * dataset.publications[pk[1]].numCitations])

KRCOps == {"find_top_faculties_with_highest_KRC_keyword",
           "find_top_faculties_with_highest_KRC_keyword_sql"}

\* C17: every entry (name, KRC) the top-faculty query returns for (keyword,
\* affiliation), in the document-store and in the relational version, is the
\* entry of one faculty member of that name at that affiliation: its KRC is the
\* sum of score * citations over that member's publications carrying the
\* keyword, rounded to 2 decimals, with nothing of another member added.
C17_KRCOfOneFaculty ==
    (CallEnded /\ op \in KRCOps) =>
        \A i \in 1..Len(ret.l) :
            \E f \in DOMAIN dataset.faculty :
                /\ dataset.faculty[f].name = ret.l[i][1]
                /\ dataset.faculty[f].affiliation = arg.s2
                /\ ret.l[i][2] \in {Round2(RelevanceCitations(f, arg.s)),
                                    RoundHalfEven2(RelevanceCitations(f, arg.s))}

PopularityOps == {"find_most_popular_keywords_mongo", "find_most_popular_keywords_sql"}

\* Publications of year >= year that carry a keyword of the given name.
PublicationsSince(name, year) ==
    {p \in DOMAIN dataset.publications :
        /\ dataset.publications[p].year >= year
        /\ \E kw \in dataset.publications[p].keywords : kw.name = name}

KeywordNamesSince(year) ==
    {kw.name : kw \in UNION {dataset.publications[p].keywords :
                                p \in {q \in DOMAIN dataset.publications :
                                          dataset.publications[q].year >= year}}}

C19_ConnectionPrivateToCall ==
    /\ (cursor = "open" => cnx = "open")
    /\ (CallEnded /\ cnx # "None" /\ "CnxClose" \notin errs => cnx = "closed")
    /\ (pc = "idle" => cnx = "None" /\ client # "open")

C21_FlagsIndependent ==
    /\ (op \in FacultyTxnOps =>
            /\ kwDel = db0.kw
            /\ kwCol = db0.kwCol
            /\ \A w \in pending : w[1] = "faculty")
    /\ (op \in KeywordTxnOps =>
            /\ facDel = db0.fac
            /\ facCol = db0.facCol
            /\ \A w \in pending : w[1] = "keyword")

\* A restore_faculty has changed faculty flags while a keyword row is flagged.
C21_Witness ==
    /\ CallEnded
    /\ op = "restore_faculty"
    /\ ret = RetBool(TRUE)
    /\ facDel # db0.fac
    /\ Deleted(kwDel) # {}

\* ------------------------------------------------------- keep-alive claims
\* C22: a keep-alive script sends at most one liveness check per attempt, makes
\* a bounded number of attempts (at most 5 for mysql_keepalive, one for the
\* others), stops at the first check that succeeds, ends with exit status 0
\* only after a check succeeded, and ends with a non-zero status whenever no
\* check succeeded.
C22_KeepAliveFailsClosed ==
    /\ keepalive.checks <= keepalive.attempt
    /\ keepalive.attempt <= (IF keepalive.script = "mysql_keepalive" THEN 5 ELSE 1)
    /\ keepalive.ok <= 1
    /\ (keepalive.ok = 1 => keepalive.status = "exit0")
    /\ (keepalive.status = "exit0" => keepalive.ok = 1)
    /\ (keepalive.pc = "done" /\ keepalive.ok = 0 => keepalive.status = "exit1")

GivenRows ==
    IF op = "delete_faculty" THEN {arg.n} \cap FacultyIds
    ELSE {int(arg.s), StringAsNumber(arg.s)} \cap KeywordIds
FlagsBefore == IF Table(op) = "faculty" THEN db0.fac ELSE db0.kw
ColumnBefore == IF Table(op) = "faculty" THEN db0.facCol ELSE db0.kwCol

\* C24: when a soft-delete (delete_faculty, delete_keyword_mysql) returns True,
\* the row of the given id is flagged in the committed table, every other row
\* is flagged exactly if it was when the call started (with its very value when
\* the column existed then), and the call has committed a transaction that
\* flagged at least one row.
C24_TrueMeansFlagged ==
    (CallEnded /\ op \in DeleteOps /\ ret = RetBool(TRUE)) =>
        /\ \E r \in GivenRows : Committed(Table(op))[r] = "T"
        /\ \A r \in DOMAIN FlagsBefore \ GivenRows :
              /\ (Committed(Table(op))[r] = "T") <=> (FlagsBefore[r] = "T")
              /\ (ColumnBefore => Committed(Table(op))[r] = FlagsBefore[r])
        /\ Has(trace, "COMMIT")
        /\ \E r \in DOMAIN FlagsBefore :
              FlagsBefore[r] # "T" /\ Committed(Table(op))[r] = "T"

\* ------------------------------------------------------- concurrency claims
\* C25: a call of find_universities_with_faculties_working_keywords(k) that
\* runs at the same time as other calls returns the universities and faculty
\* counts of its own keyword k.
C25_OwnKeywordResult ==
    \A c \in Callers :
        (calls[c].pc = "done"
         /\ calls[c].op = "find_universities_with_faculties_working_keywords") =>
            calls[c].ret = RetList(find_universities_with_faculties_working_keywords(calls[c].s))

\* C26: two calls that both saw the table without the is_deleted column and
\* both ended leave the table with the column, added by at most one of them;
\* the only error either met is the duplicate column of the later ALTER,
\* which stayed inside the function; and each returns what its operation
\* returns on a table that has the column.
SawNoColumn(c) == calls[c].pc = "done" /\ ~calls[c].column_exists
ActiveCount ==
    IF Table(op) = "faculty" THEN get_faculty_count(facDel)
    ELSE get_keyword_count_mysql(kwDel)
TotalRows == IF Table(op) = "faculty" THEN Cardinality(FacultyIds) ELSE Cardinality(KeywordIds)
RestoredTrue == CallEnded /\ op \in RestoreOps /\ ret = RetBool(TRUE)
C27_RestoreUndoesDeletes ==
    /\ RestoredTrue =>
          /\ Deleted(Committed(Table(op))) = {}
          /\ ActiveCount = TotalRows
    /\ (RestoredTrue /\ FlaggedBefore = {} /\ ColumnBefore) =>
          /\ facDel = db0.fac /\ kwDel = db0.kw
          /\ facCol = db0.facCol /\ kwCol = db0.kwCol
    /\ (CallEnded /\ op \in RestoreOps /\ FlaggedBefore = {} /\ ColumnBefore /\ errs = {}) =>
          ret = RetBool(TRUE)

====
